---- MODULE Spec2Model ----
(***************************************************************************)
(* Model of plugins/module_utils/virtinst.py: the parameter serializer     *)
(* (to_kv_pairs, to_kv_param, to_mixed_param), the argument compiler       *)
(* (VirtInstTool._make_domain_args and its _add_*_args sections) and the   *)
(* invocation builder (install_by_cdrom / _url / _pxe, import_image).      *)
(*                                                                         *)
(* Python values are tagged records; a Python str is a TLA+ string, a list *)
(* a sequence, a dict a sequence of <<key, value>> pairs in insertion      *)
(* order (keys unique).  A call that can raise returns Ok(v) or            *)
(* Raise(exception, message).                                              *)
(***************************************************************************)
EXTENDS Integers, Sequences, FiniteSets, TLC

\* module_params, kwargs: what the constructor was given; self: the
\* VirtInstTool instance; ret: the outcome of the latest call; prev: the
\* outcome of the call before it (history); ser: a serializer call
VARIABLES module_params, kwargs, self, ret, prev, ser

vars == <<module_params, kwargs, self, ret, prev, ser>>

(***************************************************************************)
(* Python values                                                           *)
(***************************************************************************)
PyNone == [t |-> "none"]
PStr(s) == [t |-> "str", s |-> s]
PInt(n) == [t |-> "int", n |-> n]
PBool(b) == [t |-> "bool", b |-> b]
PList(l) == [t |-> "list", l |-> l]
PDict(d) == [t |-> "dict", d |-> d]

Ok(v) == [exc |-> "", val |-> v]
Raise(e, m) == [exc |-> e, msg |-> m]

\* bool(v): Python truthiness
Truthy(v) ==
  CASE v.t = "none" -> FALSE
    [] v.t = "str" -> v.s # ""
    [] v.t = "int" -> v.n # 0
    [] v.t = "bool" -> v.b
    [] v.t = "list" -> v.l # <<>>
    [] v.t = "dict" -> v.d # <<>>

\* sep.join(strs) for a list whose elements are all str
RECURSIVE Join(_, _)
Join(sep, strs) ==
  IF strs = <<>> THEN ""
  ELSE IF Len(strs) = 1 THEN strs[1]
  ELSE strs[1] \o sep \o Join(sep, Tail(strs))

\* str(v) / repr(v); a str inside a container is shown in single quotes
RECURSIVE PyStr(_, _)
PyStr(v, quoted) ==
  CASE v.t = "none" -> "None"
    [] v.t = "str" -> IF quoted THEN "'" \o v.s \o "'" ELSE v.s
    [] v.t = "int" -> ToString(v.n)
    [] v.t = "bool" -> IF v.b THEN "True" ELSE "False"
    [] v.t = "list" ->
         "[" \o Join(", ", [i \in 1..Len(v.l) |-> PyStr(v.l[i], TRUE)]) \o "]"
    [] v.t = "dict" ->
         "{" \o Join(", ", [i \in 1..Len(v.d) |->
                  "'" \o v.d[i][1] \o "': " \o PyStr(v.d[i][2], TRUE)]) \o "}"

\* ansible.module_utils._text.to_native: text passes through, anything else str()
to_native(v) == PyStr(v, FALSE)

\* "{}".format(v)
Format(v) == PyStr(v, FALSE)

\* dict helpers: key in d, d[key], d.get(key), d.copy() then del d[key]
HasKey(d, k) == \E i \in 1..Len(d.d) : d.d[i][1] = k
GetItem(d, k) == d.d[CHOOSE i \in 1..Len(d.d) : d.d[i][1] = k][2]
DictGet(d, k) == IF HasKey(d, k) THEN GetItem(d, k) ELSE PyNone
RECURSIVE DropKey(_, _)
DropKey(pairs, k) ==
  IF pairs = <<>> THEN <<>>
  ELSE IF pairs[1][1] = k THEN DropKey(Tail(pairs), k)
  ELSE <<pairs[1]>> \o DropKey(Tail(pairs), k)
DelItem(d, k) == PDict(DropKey(d.d, k))

(***************************************************************************)
(* Parameter serializer                                                    *)
(***************************************************************************)
\* to_kv_pairs: data.items() exists only on a dict
to_kv_pairs(data) ==
  IF data.t # "dict"
  THEN Raise("AttributeError", "object has no attribute 'items'")
  ELSE Ok([i \in 1..Len(data.d) |->
             Join("=", <<data.d[i][1], to_native(data.d[i][2])>>)])

\* variant of to_kv_param: joins with ', ' instead of ','
to_kv_param_spaced(data) ==
  LET pairs == to_kv_pairs(data)
  IN IF pairs.exc # "" THEN pairs ELSE Ok(Join(", ", pairs.val))

to_kv_param(data) ==
  LET pairs == to_kv_pairs(data)
  IN IF pairs.exc # "" THEN pairs ELSE Ok(Join(",", pairs.val))

\* variant of to_mixed_param: without the `if data` guard
to_mixed_param_unguarded(prefix, data) ==
  LET sub_params == <<to_native(prefix)>>
      pairs == to_kv_pairs(data)
  IN IF pairs.exc # "" THEN pairs
     ELSE Ok(Join(",", sub_params \o pairs.val))

to_mixed_param(prefix, data) ==
  LET sub_params == <<to_native(prefix)>>
  IN IF Truthy(data)
     THEN LET pairs == to_kv_pairs(data)
          IN IF pairs.exc # "" THEN pairs
             ELSE Ok(Join(",", sub_params \o pairs.val))
     ELSE Ok(Join(",", sub_params))

(***************************************************************************)
(* Argument compiler.  A section takes and returns the compilation state   *)
(* st = [args, exc, msg, self]: the args list being appended to, the       *)
(* exception raised so far ("" for none) and the VirtInstTool instance.    *)
(***************************************************************************)
Raised(st) == st.exc # ""
Extend(st, toks) == IF Raised(st) THEN st ELSE [st EXCEPT !.args = @ \o toks]
Fail(st, e, m) == IF Raised(st) THEN st ELSE [st EXCEPT !.exc = e, !.msg = m]
\* args.extend([flag, <call that may raise>])
ExtendCall(st, flag, r) ==
  IF Raised(st) THEN st
  ELSE IF r.exc # "" THEN Fail(st, r.exc, r.msg)
  ELSE Extend(st, <<flag, r.val>>)

\* `for k, v in d` over a dict d: each key (a str) is unpacked into two
\* characters, which only a key of length 2 allows.  Appends
\* prefix + k + "=" + v for every k in `only` (every k when ~filtered).
RECURSIVE UnpackKeys(_, _, _, _)
UnpackKeys(pairs, prefix, filtered, only) ==
  IF pairs = <<>> THEN Ok(<<>>)
  ELSE LET key == pairs[1][1]
       IN IF Len(key) > 2
          THEN Raise("ValueError", "too many values to unpack (expected 2)")
          ELSE IF Len(key) < 2
          THEN Raise("ValueError", "not enough values to unpack (expected 2)")
          ELSE LET k == SubSeq(key, 1, 1)
                   v == SubSeq(key, 2, 2)
                   here == IF filtered /\ k \notin only THEN <<>>
                           ELSE <<prefix \o k \o "=" \o v>>
                   rest == UnpackKeys(Tail(pairs), prefix, filtered, only)
               IN IF rest.exc # "" THEN rest ELSE Ok(here \o rest.val)

\* for i, item in enumerate(items): for k, v in item: append name<i>.k=v
RECURSIVE IndexedItems(_, _, _)
IndexedItems(items, i, name) ==
  IF i > Len(items) THEN Ok(<<>>)
  ELSE LET here == UnpackKeys(items[i].d, name \o ToString(i - 1) \o ".",
                              FALSE, {})
       IN IF here.exc # "" THEN here
          ELSE LET rest == IndexedItems(items, i + 1, name)
               IN IF rest.exc # "" THEN rest ELSE Ok(here.val \o rest.val)

\* `x or []`
OrEmpty(v) == IF Truthy(v) THEN v.l ELSE <<>>

\* variant of _add_virt_args: one bare flag per recognized list entry, in
\* list order
_add_virt_args_list_order(st) ==
  LET known(v) == v \in {PStr("hvm"), PStr("paravirt"), PStr("container")}
      flags(l) == LET k == SelectSeq(l, known)
                  IN [i \in 1..Len(k) |-> "--" \o k[i].s]
      virt_type(x) == IF x.self.virt_type # PyNone
                      THEN Extend(x, <<"--virt-type", x.self.virt_type.s>>) ELSE x
      virt_opts(x) == IF x.self.virt_opts # PyNone
                      THEN Extend(x, flags(x.self.virt_opts.l)) ELSE x
      qemu_commandline(x) ==
        IF x.self.qemu_commandline # PyNone
        THEN Extend(x, <<"--qemu-commandline", x.self.qemu_commandline.s>>) ELSE x
  IN qemu_commandline(virt_opts(virt_type(st)))

\* Each section is the composition of its `if` statements, in source order.
_add_virt_args(st) ==
  LET has(x, tok) == \E i \in 1..Len(x.self.virt_opts.l) :
                        x.self.virt_opts.l[i] = PStr(tok)
      virt_type(x) == IF x.self.virt_type # PyNone
                      THEN Extend(x, <<"--virt-type", x.self.virt_type.s>>) ELSE x
      virt_opts(x) ==
        IF x.self.virt_opts # PyNone
        THEN Extend(x, (IF has(x, "hvm") THEN <<"--hvm">> ELSE <<>>)
                       \o (IF has(x, "paravirt") THEN <<"--paravirt">> ELSE <<>>)
                       \o (IF has(x, "container") THEN <<"--container">> ELSE <<>>))
        ELSE x
      qemu_commandline(x) ==
        IF x.self.qemu_commandline # PyNone
        THEN Extend(x, <<"--qemu-commandline", x.self.qemu_commandline.s>>) ELSE x
  IN qemu_commandline(virt_opts(virt_type(st)))

_add_general_args(st) ==
  LET arch(x) == IF x.self.arch # PyNone
                 THEN Extend(x, <<"--arch", x.self.arch.s>>) ELSE x
      machine(x) == IF x.self.machine # PyNone
                    THEN Extend(x, <<"--machine", x.self.machine.s>>) ELSE x
      features(x) ==
        IF x.self.machine_features # PyNone
        THEN ExtendCall(x, "--features", to_kv_param(x.self.machine_features))
        ELSE x
      os_variant(x) == IF x.self.os_variant # PyNone
                       THEN Extend(x, <<"--os-variant", x.self.os_variant.s>>)
                       ELSE x
      clock(x) ==
        IF Truthy(x.self.clock_offset) \/ Truthy(x.self.clock_opts)
        THEN LET off == IF Truthy(x.self.clock_offset)
                        THEN <<"offset=" \o Format(x.self.clock_offset)>>
                        ELSE <<>>
                 opts == IF Truthy(x.self.clock_opts)
                         THEN to_kv_pairs(x.self.clock_opts) ELSE Ok(<<>>)
             IN IF opts.exc # "" THEN Fail(x, opts.exc, opts.msg)
                ELSE Extend(x, <<"--clock">>
                               \o (IF off \o opts.val # <<>>
                                   THEN <<Join(",", off \o opts.val)>> ELSE <<>>))
        ELSE x
  IN clock(os_variant(features(machine(arch(st)))))

\* variant of FeatureParams: the four loops in alphabetical category order
FeatureParams_alphabetical(cpu_features) ==
  LET one(cat) == LET l == OrEmpty(DictGet(cpu_features, cat))
                  IN [i \in 1..Len(l) |-> PStr(cat \o "=" \o Format(l[i]))]
  IN one("disable") \o one("force") \o one("optional") \o one("require")

\* variant of FeatureParams: a fifth loop over the forbid list
FeatureParams_with_forbid(cpu_features) ==
  LET one(cat) == LET l == OrEmpty(DictGet(cpu_features, cat))
                  IN [i \in 1..Len(l) |-> PStr(cat \o "=" \o Format(l[i]))]
  IN one("force") \o one("require") \o one("optional") \o one("disable")
     \o one("forbid")

\* the four feature loops of _add_cpu_args
FeatureParams(cpu_features) ==
  LET one(cat) == LET l == OrEmpty(DictGet(cpu_features, cat))
                  IN [i \in 1..Len(l) |-> PStr(cat \o "=" \o Format(l[i]))]
  IN one("force") \o one("require") \o one("optional") \o one("disable")

\* the loop over self.cpu_cells of _add_cpu_args
RECURSIVE CellParams(_, _)
CellParams(cells, i) ==
  IF i > Len(cells) THEN Ok(<<>>)
  ELSE LET keys == UnpackKeys(cells[i].d, "numa.cell" \o ToString(i - 1) \o ".",
                              TRUE, {"id", "cpus", "memory"})
           dist == IndexedItems(OrEmpty(DictGet(cells[i], "distances")), 1,
                     "numa.cell" \o ToString(i - 1) \o ".distances.sibling")
           rest == CellParams(cells, i + 1)
       IN IF keys.exc # "" THEN keys
          ELSE IF dist.exc # "" THEN dist
          ELSE IF rest.exc # "" THEN rest
          ELSE Ok(keys.val \o dist.val \o rest.val)

\* ','.join(sub_params) where sub_params may hold a non-str element
JoinValues(sub_params) ==
  IF \E i \in 1..Len(sub_params) : sub_params[i].t # "str"
  THEN Raise("TypeError", "sequence item: expected str instance, list found")
  ELSE Ok(Join(",", [i \in 1..Len(sub_params) |-> sub_params[i].s]))

\* sub_params of the --cpu flag: model, features, cpu_opts (the list of pairs
\* appended as ONE element), NUMA cells
CpuSubParams(s) ==
  LET feats == IF s.cpu_features # PyNone
               THEN FeatureParams(s.cpu_features) ELSE <<>>
      opts == IF s.cpu_opts # PyNone THEN to_kv_pairs(s.cpu_opts) ELSE Ok(<<>>)
      cells == IF s.cpu_cells # PyNone
               THEN CellParams(s.cpu_cells.l, 1) ELSE Ok(<<>>)
  IN IF opts.exc # "" THEN opts
     ELSE IF cells.exc # "" THEN cells
     ELSE Ok(<<s.cpu_model>> \o feats
             \o (IF s.cpu_opts # PyNone
                 THEN <<PList([i \in 1..Len(opts.val) |-> PStr(opts.val[i])])>>
                 ELSE <<>>)
             \o [i \in 1..Len(cells.val) |-> PStr(cells.val[i])])

\* variant of _add_cpu_args: the vcpus statement indented under
\* `if self.cpu_model is not None`
_add_cpu_args_nested(st) ==
  LET payload(sub) == IF sub.exc # "" THEN sub ELSE JoinValues(sub.val)
      emit(x, joined) == IF joined.exc # "" THEN Fail(x, joined.exc, joined.msg)
                         ELSE Extend(x, <<"--cpu", joined.val>>)
      vcpus(x) ==
        IF x.self.vcpus # PyNone
        THEN ExtendCall(x, "--vcpus",
                        to_mixed_param(x.self.vcpus, x.self.vcpus_opts))
        ELSE x
      cpu(x) == IF x.self.cpu_model # PyNone
                THEN vcpus(emit(x, payload(CpuSubParams(x.self)))) ELSE x
  IN cpu(st)

_add_cpu_args(st) ==
  LET payload(sub) == IF sub.exc # "" THEN sub ELSE JoinValues(sub.val)
      emit(x, joined) == IF joined.exc # "" THEN Fail(x, joined.exc, joined.msg)
                         ELSE Extend(x, <<"--cpu", joined.val>>)
      cpu(x) == IF x.self.cpu_model # PyNone
                THEN emit(x, payload(CpuSubParams(x.self))) ELSE x
      vcpus(x) ==
        IF x.self.vcpus # PyNone
        THEN ExtendCall(x, "--vcpus",
                        to_mixed_param(x.self.vcpus, x.self.vcpus_opts))
        ELSE x
  IN vcpus(cpu(st))

_add_memory_args(st) ==
  LET memory(x) ==
        IF x.self.memory # PyNone
        THEN ExtendCall(x, "--memory",
                        to_mixed_param(x.self.memory, x.self.memory_opts))
        ELSE x
      memorybacking(x) ==
        IF x.self.memorybacking # PyNone
        THEN ExtendCall(x, "--memorybacking", to_kv_param(x.self.memorybacking))
        ELSE x
      memballoon(x) ==
        IF x.self.memballoon # PyNone
        THEN ExtendCall(x, "--memballoon",
                        to_mixed_param(x.self.memballoon, x.self.memballoon_opts))
        ELSE x
  IN memballoon(memorybacking(memory(st)))

\* args.append(flag), then the sub_params built by `build`, joined when non-empty
TuneFlag(x, flag, sub) ==
  IF sub.exc # "" THEN Fail(x, sub.exc, sub.msg)
  ELSE Extend(x, <<flag>> \o (IF sub.val # <<>> THEN <<Join(",", sub.val)>>
                              ELSE <<>>))

\* sub_params of --blkiotune: `for k, v in self.blkiotune`, then the devices
BlkioSubParams(blkiotune) ==
  LET top == UnpackKeys(blkiotune.d, "", TRUE, {"weight"})
      devs == IndexedItems(OrEmpty(DictGet(blkiotune, "devices")), 1, "device")
  IN IF top.exc # "" THEN top
     ELSE IF devs.exc # "" THEN devs
     ELSE Ok(top.val \o devs.val)

_add_tune_args(st) ==
  LET cputune(x) ==
        IF x.self.cputune # PyNone
        THEN TuneFlag(x, "--cputune",
               IndexedItems(OrEmpty(DictGet(x.self.cputune, "vcpupins")),
                            1, "vcpupin"))
        ELSE x
      \* args.extend('--memtune', value): extend() takes one argument
      memtune_call(x, value) ==
        IF value.exc # "" THEN Fail(x, value.exc, value.msg)
        ELSE Fail(x, "TypeError", "extend() takes exactly one argument (2 given)")
      memtune(x) == IF x.self.memtune # PyNone
                    THEN memtune_call(x, to_kv_param(x.self.memtune)) ELSE x
      blkiotune(x) == IF x.self.blkiotune # PyNone
                      THEN TuneFlag(x, "--blkiotune", BlkioSubParams(x.self.blkiotune))
                      ELSE x
  IN blkiotune(memtune(cputune(st)))

_add_boot_args(st) ==
  IF st.self.uefi # PyNone THEN Extend(st, <<"--boot", "uefi">>) ELSE st

\* for x in items: args.extend([flag, to_kv_param(x)])
RECURSIVE KvLoop(_, _, _, _)
KvLoop(st, items, i, flag) ==
  IF Raised(st) \/ i > Len(items) THEN st
  ELSE KvLoop(ExtendCall(st, flag, to_kv_param(items[i])), items, i + 1, flag)

\* variant of _add_storage_args: iterates over the distinct elements only
\* (`for disk in set(...)`-like), dropping repeated devices
RECURSIVE Distinct(_)
Distinct(items) ==
  IF items = <<>> THEN <<>>
  ELSE LET front == Distinct(SubSeq(items, 1, Len(items) - 1))
           last == items[Len(items)]
       IN IF \E i \in 1..Len(front) : front[i] = last THEN front
          ELSE Append(front, last)
_add_storage_args_distinct(st) ==
  IF st.self.storage_devices # PyNone
  THEN IF Len(st.self.storage_devices.l) = 0
       THEN Extend(st, <<"--disk", "none">>)
       ELSE KvLoop(st, Distinct(st.self.storage_devices.l), 1, "--disk")
  ELSE st

_add_storage_args(st) ==
  IF st.self.storage_devices # PyNone
  THEN IF Len(st.self.storage_devices.l) = 0
       THEN Extend(st, <<"--disk", "none">>)
       ELSE KvLoop(st, st.self.storage_devices.l, 1, "--disk")
  ELSE st

\* variant of _add_network_args: `if not self.network_devices` instead of
\* the is-not-None and len() == 0 tests
_add_network_args_falsy(st) ==
  IF ~Truthy(st.self.network_devices)
  THEN Extend(st, <<"--network", "none">>)
  ELSE KvLoop(st, st.self.network_devices.l, 1, "--network")

_add_network_args(st) ==
  IF st.self.network_devices # PyNone
  THEN IF Len(st.self.network_devices.l) = 0
       THEN Extend(st, <<"--network", "none">>)
       ELSE KvLoop(st, st.self.network_devices.l, 1, "--network")
  ELSE st

\* variant of dict_copy: device_opts = device_info, the same dict object
dict_alias(d) == [d |-> d, shared |-> TRUE]

\* device_info.copy(): a new dict object, not shared with the list element
dict_copy(d) == [d |-> d, shared |-> FALSE]

\* variant of MixedStep: the options passed to to_mixed_param still hold the
\* discriminator key
MixedStep_keep_key(st, field, i, flag, key, ref) ==
  ExtendCall(st, flag, to_mixed_param(GetItem(ref.d, key), ref.d))

\* variant of MixedStep: del device_info[key] on the list element itself
MixedStep_in_place(st, field, i, flag, key, ref) ==
  ExtendCall([st EXCEPT !.self[field].l[i] = DelItem(ref.d, key)],
             flag, to_mixed_param(GetItem(ref.d, key), DelItem(ref.d, key)))

\* the loop over one device list whose elements are serialized as
\* to_mixed_param(element[key], element.copy() without key)
\* one iteration: device_opts = device_info.copy(); del device_opts[key];
\* args.extend([flag, to_mixed_param(device_info[key], device_opts)]).
\* A del through a shared reference would change the list element itself.
MixedStep(st, field, i, flag, key, ref) ==
  ExtendCall(IF ref.shared
             THEN [st EXCEPT !.self[field].l[i] = DelItem(ref.d, key)] ELSE st,
             flag, to_mixed_param(GetItem(ref.d, key), DelItem(ref.d, key)))

RECURSIVE MixedLoop(_, _, _, _, _, _)
MixedLoop(st, field, i, flag, key, msg) ==
  IF Raised(st) \/ i > Len(st.self[field].l) THEN st
  ELSE IF ~HasKey(st.self[field].l[i], key) THEN Fail(st, "VirtInstError", msg)
  ELSE MixedLoop(MixedStep(st, field, i, flag, key,
                           dict_copy(st.self[field].l[i])),
                 field, i + 1, flag, key, msg)

\* variant of InputLoop: the message copied from the serial loop
RECURSIVE InputLoop_copied(_, _)
InputLoop_copied(st, i) ==
  IF Raised(st) \/ i > Len(st.self.input_devices.l) THEN st
  ELSE IF ~HasKey(st.self.input_devices.l[i], "type")
  THEN Fail(st, "VirtInstError",
            "Sub-option 'type' is required for each serial device")
  ELSE InputLoop_copied(ExtendCall(st, "--input",
                                   to_kv_param(st.self.input_devices.l[i])), i + 1)

\* the loop over self.input_devices
RECURSIVE InputLoop(_, _)
InputLoop(st, i) ==
  IF Raised(st) \/ i > Len(st.self.input_devices.l) THEN st
  ELSE IF ~HasKey(st.self.input_devices.l[i], "type")
  THEN Fail(st, "VirtInstError",
            "Sub-option 'type' is required for each input device")
  ELSE InputLoop(ExtendCall(st, "--input",
                            to_kv_param(st.self.input_devices.l[i])), i + 1)

_add_device_args(st) ==
  LET video(x) ==
        IF x.self.video # PyNone
        THEN ExtendCall(x, "--video", to_mixed_param(x.self.video, x.self.video_opts))
        ELSE x
      sound(x) ==
        IF x.self.sound # PyNone
        THEN ExtendCall(x, "--sound", to_mixed_param(x.self.sound, x.self.sound_opts))
        ELSE x
      mixed(x, field, flag, key, msg) ==
        IF x.self[field] # PyNone THEN MixedLoop(x, field, 1, flag, key, msg)
        ELSE x
      input(x) == IF x.self.input_devices # PyNone THEN InputLoop(x, 1) ELSE x
  IN mixed(
       mixed(
         input(
           mixed(
             mixed(
               mixed(sound(video(st)),
                     "serial_devices", "--serial", "type",
                     "Sub-option 'type' is required for each serial device"),
               "parallel_devices", "--parallel", "type",
               "Sub-option 'type' is required for each parallel device"),
             "smartcard_devices", "--smartcard", "mode",
             "Sub-option 'mode' is required for each smartcard device")),
         "controllers", "--controller", "type",
         "Sub-option 'type' is required for each controller device"),
       "host_devices", "--hostdev", "source",
       "Sub-option 'source' is required for each host device")

_add_graphics_args(st) ==
  IF st.self.graphics # PyNone
  THEN ExtendCall(st, "--graphics",
                  to_mixed_param(st.self.graphics, st.self.graphics_opts))
  ELSE st

\* variant of _add_misc_args: `if self.autostart is not None`
_add_misc_args_not_none(st) ==
  Extend(st, (IF st.self.autostart # PyNone THEN <<"--autostart">> ELSE <<>>)
             \o <<"--noautoconsole">>)

_add_misc_args(st) ==
  Extend(st, (IF Truthy(st.self.autostart) THEN <<"--autostart">> ELSE <<>>)
             \o <<"--noautoconsole">>)

\* variant of _make_domain_args: _add_boot_args called after the storage and
\* network sections
_make_domain_args_boot_late(slf) ==
  LET args == [args |-> <<"--name", slf.name.s>>, exc |-> "", msg |-> "",
               self |-> slf]
  IN _add_misc_args(
       _add_graphics_args(
         _add_device_args(
           _add_boot_args(
             _add_network_args(
               _add_storage_args(
                 _add_tune_args(
                   _add_memory_args(
                     _add_cpu_args(
                       _add_general_args(
                         _add_virt_args(args)))))))))))

\* _make_domain_args: the sections in call order; the result carries the args
\* list, or the exception that ended the call, and the instance afterwards
_make_domain_args(slf) ==
  LET args == [args |-> <<"--name", slf.name.s>>, exc |-> "", msg |-> "",
               self |-> slf]
  IN _add_misc_args(
       _add_graphics_args(
         _add_device_args(
           _add_network_args(
             _add_storage_args(
               _add_boot_args(
                 _add_tune_args(
                   _add_memory_args(
                     _add_cpu_args(
                       _add_general_args(
                         _add_virt_args(args)))))))))))

(***************************************************************************)
(* Construction                                                            *)
(***************************************************************************)
\* module.get_bin_path('virt-install', True)
get_bin_path == "/usr/bin/virt-install"

\* kwargs.get(key, default)
KwGet(kw, key, default) == IF key \in DOMAIN kw THEN kw[key] ELSE default

\* VirtInstTool.__init__: every field is kwargs.get(field, module.params[field]),
\* except uefi, whose default is read from module.params['os_variant']
__init__(params, uri, name, kw) ==
  [f \in DOMAIN params |->
     IF f = "uefi" THEN KwGet(kw, "uefi", params["os_variant"])
     ELSE KwGet(kw, f, params[f])]
  @@ [uri |-> uri, name |-> name, virtinst_bin |-> get_bin_path]

(***************************************************************************)
(* Invocation builder: the vector each mode hands to module.run_command    *)
(***************************************************************************)
BaseCmd(slf, args) == <<slf.virtinst_bin, "--connect", slf.uri.s>> \o args
Flag(cond, toks) == IF cond THEN toks ELSE <<>>

install_by_cdrom_cmd(slf, args, in) ==
  BaseCmd(slf, args) \o <<"--cdrom", to_native(in.media)>>
  \o Flag(Truthy(in.noreboot), <<"--noreboot">>)
  \o Flag(Truthy(in.dryrun), <<"--dry-run">>)

\* variant of install_by_url_cmd: the initrd_inject test placed before the
\* extra_args test
install_by_url_cmd_inject_first(slf, args, in) ==
  BaseCmd(slf, args) \o <<"--location", in.url.s>>
  \o Flag(in.initrd_inject # PyNone,
          <<"--initrd-inject", to_native(in.initrd_inject)>>)
  \o Flag(in.extra_args # PyNone, <<"--extra-args", to_native(in.extra_args)>>)
  \o Flag(Truthy(in.noreboot), <<"--noreboot">>)
  \o Flag(Truthy(in.dryrun), <<"--dry-run">>)

install_by_url_cmd(slf, args, in) ==
  BaseCmd(slf, args) \o <<"--location", in.url.s>>
  \o Flag(in.extra_args # PyNone, <<"--extra-args", to_native(in.extra_args)>>)
  \o Flag(in.initrd_inject # PyNone,
          <<"--initrd-inject", to_native(in.initrd_inject)>>)
  \o Flag(Truthy(in.noreboot), <<"--noreboot">>)
  \o Flag(Truthy(in.dryrun), <<"--dry-run">>)

install_by_pxe_cmd(slf, args, in) ==
  BaseCmd(slf, args) \o <<"--pxe">>
  \o Flag(Truthy(in.noreboot), <<"--noreboot">>)
  \o Flag(Truthy(in.dryrun), <<"--dry-run">>)

\* variant of import_image_cmd: the dry-run test placed before the append of
\* --import
import_image_cmd_dry_first(slf, args, in) ==
  BaseCmd(slf, args)
  \o Flag(Truthy(in.dryrun), <<"--dry-run">>) \o <<"--import">>

import_image_cmd(slf, args, in) ==
  BaseCmd(slf, args) \o <<"--import">>
  \o Flag(Truthy(in.dryrun), <<"--dry-run">>)

(***************************************************************************)
(* Inputs: module.params as the argument_spec of virt_cloudimg_vm.py types *)
(* them, plus the graphics keys that __init__ also reads                   *)
(***************************************************************************)
MaxDevices == 2
MaxEntries == 2

D(pairs) == PDict(pairs)
L(items) == PList(items)
Override(base, v) == [f \in DOMAIN base |-> IF f \in DOMAIN v THEN v[f] ELSE base[f]]
ListsUpTo(S, n) == UNION {[1..k -> S] : k \in 0..n}

\* every option unset; vcpus and memory are required by the argument_spec
Minimal ==
  [autostart |-> PBool(FALSE), virt_type |-> PyNone, virt_opts |-> PyNone,
   arch |-> PyNone, machine |-> PyNone, machine_features |-> PyNone,
   qemu_commandline |-> PyNone, cpu_model |-> PyNone, cpu_opts |-> PyNone,
   cpu_features |-> PyNone, cpu_cells |-> PyNone, vcpus |-> PInt(2),
   vcpus_opts |-> PyNone, memory |-> PInt(2048), memory_opts |-> PyNone,
   memorybacking |-> PyNone, memballoon |-> PyNone, memballoon_opts |-> PyNone,
   cputune |-> PyNone, memtune |-> PyNone, numatune |-> PyNone,
   blkiotune |-> PyNone, clock_offset |-> PyNone, clock_opts |-> PyNone,
   os_variant |-> PyNone, uefi |-> PyNone, storage_devices |-> PyNone,
   network_devices |-> PyNone, graphics |-> PyNone, graphics_opts |-> PyNone,
   video |-> PyNone, video_opts |-> PyNone, sound |-> PyNone,
   sound_opts |-> PyNone, serial_devices |-> PyNone,
   parallel_devices |-> PyNone, smartcard_devices |-> PyNone,
   input_devices |-> PyNone, controllers |-> PyNone, host_devices |-> PyNone]

Disks == {D(<<<<"path", PStr("/x.img")>>, <<"size", PInt(10)>>>>),
          D(<<<<"pool", PStr("default")>>, <<"sparse", PBool(TRUE)>>>>),
          D(<<>>)}
Nets == {D(<<<<"network", PStr("default")>>>>),
         D(<<<<"bridge", PStr("br0")>>, <<"model", PStr("virtio")>>>>),
         D(<<>>)}

\* one device element per kind with its discriminator, and one without it
GoodDevice ==
  [serial_devices |-> D(<<<<"type", PStr("pty")>>>>),
   parallel_devices |-> D(<<<<"path", PStr("/dev/parport0")>>, <<"type", PStr("dev")>>>>),
   smartcard_devices |-> D(<<<<"mode", PStr("passthrough")>>, <<"type", PStr("spicevmc")>>>>),
   input_devices |-> D(<<<<"type", PStr("tablet")>>, <<"bus", PStr("usb")>>>>),
   controllers |-> D(<<<<"type", PStr("usb")>>, <<"model", PStr("ich9-ehci1")>>>>),
   host_devices |-> D(<<<<"source", PStr("001.003")>>, <<"driver_name", PStr("vfio")>>>>)]
BadDevice ==
  [serial_devices |-> D(<<<<"path", PStr("/tmp/s")>>>>),
   parallel_devices |-> D(<<>>),
   smartcard_devices |-> D(<<<<"type", PStr("tcp")>>>>),
   input_devices |-> D(<<<<"bus", PStr("usb")>>>>),
   controllers |-> D(<<<<"model", PStr("virtio-scsi")>>>>),
   host_devices |-> D(<<<<"driver_name", PStr("vfio")>>>>)]
\* a second element per kind with its discriminator, the key not always first
OtherDevice ==
  [serial_devices |-> D(<<<<"path", PStr("/tmp/log")>>, <<"type", PStr("file")>>>>),
   parallel_devices |-> D(<<<<"type", PStr("file")>>>>),
   smartcard_devices |-> D(<<<<"mode", PStr("host")>>>>),
   input_devices |-> D(<<<<"bus", PStr("ps2")>>, <<"type", PStr("keyboard")>>>>),
   controllers |-> D(<<<<"index", PInt(0)>>, <<"type", PStr("scsi")>>>>),
   host_devices |-> D(<<<<"source", PStr("pci_0000_00_1b_0")>>>>)]
DeviceKinds == <<"serial_devices", "parallel_devices", "smartcard_devices",
                 "input_devices", "controllers", "host_devices">>
KindNames == {DeviceKinds[i] : i \in 1..Len(DeviceKinds)}

\* the claim's NUMA example, and cells whose keys all have two characters
CellExample ==
  D(<<<<"id", PInt(0)>>, <<"cpus", PStr("0-3")>>, <<"memory", PInt(2048)>>,
      <<"distances", L(<<D(<<<<"id", PInt(1)>>, <<"value", PInt(10)>>>>)>>)>>>>)
CellIdOnly == D(<<<<"id", PInt(0)>>>>)
CellIdDistance ==
  D(<<<<"id", PInt(1)>>, <<"distances", L(<<D(<<<<"id", PInt(0)>>>>)>>)>>>>)

\* the variants of one section, each a set of fields to set
VirtVariants ==
  {[virt_type |-> PStr("kvm")],
   [virt_opts |-> L(<<PStr("container"), PStr("hvm"), PStr("hvm")>>)],
   [virt_opts |-> L(<<PStr("paravirt"), PStr("xen")>>),
    qemu_commandline |-> PStr("-device foo")],
   [virt_opts |-> L(<<>>)],
   [virt_type |-> PStr("xen"),
    virt_opts |-> L(<<PStr("container"), PStr("xen"), PStr("hvm"),
                      PStr("paravirt"), PStr("hvm")>>),
    qemu_commandline |-> PStr("-device foo,bar=1  -S ")]}
GeneralVariants ==
  {[arch |-> PStr("x86_64"), machine |-> PStr("q35")],
   [machine_features |-> D(<<<<"acpi", PStr("off")>>, <<"smm", PBool(TRUE)>>>>)],
   [machine_features |-> D(<<>>)],
   [os_variant |-> PStr("fedora30")],
   [clock_offset |-> PStr("utc")],
   [clock_opts |-> D(<<<<"hpet_present", PBool(FALSE)>>>>)],
   [clock_offset |-> PStr("localtime"), clock_opts |-> D(<<<<"rtc_tickpolicy", PStr("catchup")>>>>)],
   [clock_offset |-> PStr(""), clock_opts |-> D(<<>>)]}
Features ==
  D(<<<<"disable", L(<<PStr("vmx")>>)>>, <<"force", L(<<PStr("pcid"), PStr("aes")>>)>>,
      <<"require", PyNone>>, <<"forbid", L(<<PStr("svm")>>)>>>>)
\* every category listed, the keys in an order other than the emission order
FeaturesShuffled ==
  D(<<<<"optional", L(<<PStr("avx"), PStr("sse4.2")>>)>>,
      <<"disable", L(<<PStr("vmx")>>)>>, <<"forbid", PyNone>>,
      <<"require", L(<<PStr("pcid")>>)>>,
      <<"force", L(<<PStr("aes"), PStr("x2apic")>>)>>>>)
CpuVariants ==
  {[cpu_model |-> PStr("host")],
   [cpu_model |-> PStr("host"), cpu_features |-> Features],
   [cpu_model |-> PStr("host"), cpu_features |-> FeaturesShuffled],
   [cpu_model |-> PStr("host"), cpu_features |-> D(<<>>)],
   [cpu_features |-> Features],
   [cpu_model |-> PStr("host"), cpu_opts |-> D(<<<<"match", PStr("exact")>>>>)],
   [cpu_opts |-> D(<<<<"match", PStr("exact")>>>>)],
   [cpu_model |-> PStr("host"), cpu_cells |-> L(<<CellExample>>)],
   [cpu_model |-> PStr("host"), cpu_cells |-> L(<<CellIdOnly>>)],
   [cpu_model |-> PStr("host"), cpu_cells |-> L(<<CellIdOnly, CellIdDistance>>)],
   [cpu_model |-> PStr("host"), cpu_cells |-> L(<<>>)],
   [cpu_cells |-> L(<<CellExample>>)],
   [cpu_features |-> Features, cpu_opts |-> D(<<<<"match", PStr("exact")>>>>),
    cpu_cells |-> L(<<CellIdOnly, CellExample>>)],
   [vcpus_opts |-> D(<<<<"maxvcpus", PInt(4)>>>>)],
   [vcpus_opts |-> D(<<>>)]}
MemoryVariants ==
  {[memory_opts |-> D(<<<<"currentMemory", PInt(1024)>>>>)],
   [memorybacking |-> D(<<<<"hugepages", PStr("on")>>>>)],
   [memorybacking |-> D(<<>>)],
   [memballoon |-> PStr("virtio")],
   [memballoon |-> PStr("virtio"), memballoon_opts |-> D(<<<<"autodeflate", PStr("on")>>>>)]}
TuneVariants ==
  {[cputune |-> D(<<>>)],
   [cputune |-> D(<<<<"vcpupins", PyNone>>>>)],
   [cputune |-> D(<<<<"vcpupins", L(<<D(<<<<"vcpu", PInt(0)>>, <<"cpuset", PStr("1-2")>>>>)>>)>>>>)],
   [memtune |-> D(<<<<"hard_limit", PInt(1024)>>>>)],
   [memtune |-> D(<<>>)],
   [numatune |-> D(<<<<"nodeset", PStr("0-1")>>, <<"mode", PStr("strict")>>>>)],
   [blkiotune |-> D(<<>>)],
   [blkiotune |-> D(<<<<"weight", PInt(100)>>>>)],
   [blkiotune |-> D(<<<<"devices", L(<<D(<<<<"path", PStr("/dev/sda")>>, <<"weight", PInt(10)>>>>)>>)>>>>)]}
BootVariants == {[uefi |-> PBool(TRUE)], [uefi |-> PBool(FALSE)]}
StorageVariants == {[storage_devices |-> L(l)] : l \in ListsUpTo(Disks, MaxDevices)}
NetworkVariants == {[network_devices |-> L(l)] : l \in ListsUpTo(Nets, MaxDevices)}
DisplayVariants ==
  {[video |-> PStr("qxl")],
   [video |-> PStr("virtio"), video_opts |-> D(<<<<"model", PStr("q35")>>>>)],
   [sound |-> PStr("ich9")],
   [graphics |-> PStr("vnc")],
   [graphics |-> PStr("spice"), graphics_opts |-> D(<<<<"port", PInt(5901)>>>>)],
   [graphics_opts |-> D(<<<<"port", PInt(5901)>>>>)]}
MiscVariants == {[autostart |-> PBool(TRUE)]}
\* one device list of up to MaxDevices elements
PeripheralVariants ==
  UNION {{(k :> L(l)) : l \in ListsUpTo({GoodDevice[k], BadDevice[k]}, MaxDevices)}
         : k \in KindNames}
\* every kind set to a one-element list, with or without its discriminator
PeripheralMixes ==
  {[k \in KindNames |-> L(<<IF k \in bad THEN BadDevice[k] ELSE GoodDevice[k]>>)]
     : bad \in SUBSET KindNames}
\* every kind set to two different elements that carry their discriminator
PeripheralPairs ==
  {[k \in KindNames |-> L(<<OtherDevice[k], GoodDevice[k]>>)]}
\* the fields the compiler does not read, set together with a CPU model
IgnoredVariants ==
  {[cpu_model |-> PStr("host"), cpu_features |-> Features,
    numatune |-> D(<<<<"nodeset", PStr("0-1")>>, <<"mode", PStr("strict")>>,
                     <<"placement", PStr("static")>>>>)],
   [cpu_model |-> PStr("host"),
    cpu_features |-> D(<<<<"forbid", L(<<PStr("svm"), PStr("vmx")>>)>>>>)],
   [numatune |-> D(<<>>)]}

Variants ==
  VirtVariants \cup GeneralVariants \cup CpuVariants \cup MemoryVariants
  \cup TuneVariants \cup BootVariants \cup StorageVariants \cup NetworkVariants
  \cup DisplayVariants \cup MiscVariants \cup PeripheralVariants
  \cup PeripheralMixes \cup PeripheralPairs \cup IgnoredVariants

\* every section populated with values that compile
Full ==
  Override(Minimal,
    [autostart |-> PBool(TRUE), virt_type |-> PStr("kvm"),
     virt_opts |-> L(<<PStr("hvm")>>), arch |-> PStr("x86_64"),
     machine |-> PStr("q35"),
     machine_features |-> D(<<<<"acpi", PStr("on")>>>>),
     qemu_commandline |-> PStr("-S"), cpu_model |-> PStr("host-model"),
     cpu_features |-> D(<<<<"require", L(<<PStr("vmx")>>)>>>>),
     vcpus_opts |-> D(<<<<"sockets", PInt(1)>>>>),
     memory_opts |-> D(<<<<"maxmemory", PInt(4096)>>>>),
     memorybacking |-> D(<<<<"locked", PStr("on")>>>>),
     memballoon |-> PStr("virtio"),
     cputune |-> D(<<<<"vcpupins", L(<<>>)>>>>), blkiotune |-> D(<<>>),
     clock_offset |-> PStr("utc"), os_variant |-> PStr("rhel8"),
     uefi |-> PBool(TRUE),
     storage_devices |-> L(<<D(<<<<"path", PStr("/root.qcow2")>>>>)>>),
     network_devices |-> L(<<D(<<<<"network", PStr("default")>>>>)>>),
     graphics |-> PStr("vnc"), video |-> PStr("qxl"), sound |-> PStr("ac97"),
     serial_devices |-> L(<<GoodDevice["serial_devices"]>>),
     parallel_devices |-> L(<<GoodDevice["parallel_devices"]>>),
     smartcard_devices |-> L(<<GoodDevice["smartcard_devices"]>>),
     input_devices |-> L(<<GoodDevice["input_devices"]>>),
     controllers |-> L(<<GoodDevice["controllers"]>>),
     host_devices |-> L(<<GoodDevice["host_devices"]>>)])

\* settings of an earlier section together with a device element that lacks
\* its discriminator
EarlierVariants ==
  {[memtune |-> D(<<<<"hard_limit", PInt(1024)>>>>)],
   [cpu_model |-> PStr("host"), cpu_opts |-> D(<<<<"match", PStr("exact")>>>>)],
   [cpu_model |-> PStr("host"), cpu_cells |-> L(<<CellExample>>)],
   [cputune |-> D(<<<<"vcpupins", L(<<D(<<<<"vcpu", PInt(0)>>, <<"cpuset", PStr("1-2")>>>>)>>)>>>>)],
   [blkiotune |-> D(<<<<"weight", PInt(100)>>>>)],
   [cpu_model |-> PStr("host"), memballoon |-> PStr("virtio")]}
EarlierMixes ==
  {Override(Override(Minimal, v),
            [serial_devices |-> L(<<BadDevice["serial_devices"]>>)])
     : v \in EarlierVariants}

ParamSets ==
  {Minimal, Full} \cup {Override(Minimal, v) : v \in Variants}
  \cup {Override(Full, v) : v \in Variants} \cup EarlierMixes

\* the specifications the install functions are run on: per kind a list
\* whose first or second element lacks the discriminator, all kinds at once
\* with at most one or every kind lacking it, the earlier-section settings
\* alone and with a bad device, and both device lists explicitly empty
InstallParamSets ==
  {Minimal, Full} \cup EarlierMixes
  \cup {Override(Minimal, v) : v \in EarlierVariants}
  \cup UNION {{Override(Minimal, (k :> L(<<BadDevice[k]>>))),
               Override(Minimal, (k :> L(<<GoodDevice[k], BadDevice[k]>>)))}
              : k \in KindNames}
  \cup {Override(Full, v) :
          v \in {[k \in KindNames |->
                    L(<<IF k \in bad THEN BadDevice[k] ELSE GoodDevice[k]>>)]
                   : bad \in {b \in SUBSET KindNames :
                                Cardinality(b) \in {1, Cardinality(KindNames)}}}}
  \cup {Override(Full, [storage_devices |-> L(<<>>), network_devices |-> L(<<>>)])}

\* keyword overrides given to the constructor; only they can unset a field
\* that the argument_spec requires or defaults
KwargSets ==
  {[uefi |-> PBool(TRUE)], [uefi |-> PBool(FALSE)], [uefi |-> PyNone],
   [autostart |-> PBool(TRUE), memory |-> PInt(512)],
   [autostart |-> PyNone], [vcpus |-> PyNone, memory |-> PyNone]}

Uri == PStr("qemu:///system")
Name == PStr("v1")

(***************************************************************************)
(* Inputs of the install functions and of the serializer                   *)
(***************************************************************************)
NoInput ==
  [media |-> PyNone, url |-> PyNone, extra_args |-> PyNone,
   initrd_inject |-> PyNone, noreboot |-> PBool(FALSE), dryrun |-> PBool(FALSE)]
\* (noreboot, dryrun) pairs
With(nb, dr) == [NoInput EXCEPT !.noreboot = PBool(nb), !.dryrun = PBool(dr)]
CdromInputs ==
  {[in EXCEPT !.media = PStr("/iso/f.iso")]
     : in \in {With(FALSE, FALSE), With(TRUE, FALSE), With(TRUE, TRUE)}}
UrlInputs ==
  {[NoInput EXCEPT !.url = PStr("http://mirror/os")],
   [With(TRUE, TRUE) EXCEPT !.url = PStr("http://mirror/os"),
                            !.extra_args = PStr("console=ttyS0"),
                            !.initrd_inject = PStr("/ks.cfg")],
   [With(FALSE, TRUE) EXCEPT !.url = PStr("http://mirror/os"),
                             !.initrd_inject = PStr("/ks.cfg")],
   [With(TRUE, FALSE) EXCEPT !.url = PStr("http://mirror/os"),
                             !.extra_args = PStr("console=ttyS0")]}
PxeInputs == {With(FALSE, FALSE), With(FALSE, TRUE), With(TRUE, TRUE)}
ImportInputs == {With(FALSE, FALSE), With(FALSE, TRUE)}

SerKeys == {"model", "size", "a=b", "c,d"}
SerValues == {PStr("q35"), PInt(10), PBool(TRUE), PStr("1,2"), PStr("x=y"), PStr("")}
\* dicts of up to MaxEntries entries, keys unique, in every insertion order
SerMaps ==
  {m \in ListsUpTo(SerKeys \X SerValues, MaxEntries) :
     \A i, j \in 1..Len(m) : i # j => m[i][1] # m[j][1]}
SerData == {PyNone} \cup {PDict(m) : m \in SerMaps}
SerPrefixes == {PStr("virtio"), PInt(2048)}

(***************************************************************************)
(* State machine                                                           *)
(***************************************************************************)
NoCall ==
  [op |-> "", in |-> NoInput, exc |-> "", msg |-> "", args |-> <<>>,
   cmd |-> <<>>, ran |-> FALSE]
NoSer == [fn |-> "", prefix |-> PyNone, data |-> PyNone, out |-> Ok("")]

\* the state after construction: nothing has been called yet
Constructed(params, kw) ==
  /\ module_params = params
  /\ kwargs = kw
  /\ self = __init__(params, Uri, Name, kw)
  /\ ret = NoCall
  /\ prev = NoCall
  /\ ser = NoSer

\* a constructed VirtInstTool over the specifications that exercise the
\* install functions: compiling ones, and ones that raise in each way
Init ==
  \/ \E params \in InstallParamSets : Constructed(params, <<>>)
  \/ \E kw \in KwargSets : Constructed(Full, kw)

\* a direct call of _make_domain_args
Call_make_domain_args ==
  LET done(d) ==
        /\ self' = d.self
        /\ ret' = [NoCall EXCEPT !.op = "_make_domain_args", !.exc = d.exc,
                                 !.msg = d.msg,
                                 !.args = IF d.exc = "" THEN d.args ELSE <<>>]
  IN /\ done(_make_domain_args(self))
     /\ prev' = ret
     /\ UNCHANGED <<module_params, kwargs, ser>>

\* the common shape of the four install functions: compile, build cmd, and
\* return self.module.run_command(cmd), whose result is passed through
\* uninterpreted; an exception of the compilation leaves the function before
\* cmd is complete
Invoke(op, in, d, cmd) ==
  [self |-> d.self,
   ret |-> IF d.exc # ""
           THEN [NoCall EXCEPT !.op = op, !.in = in, !.exc = d.exc, !.msg = d.msg]
           ELSE [NoCall EXCEPT !.op = op, !.in = in, !.args = d.args,
                               !.cmd = cmd, !.ran = TRUE]]

install_by_cdrom ==
  LET set(r) == self' = r.self /\ ret' = r.ret
      run(d) == \E in \in CdromInputs : set(Invoke("install_by_cdrom", in, d,
                   install_by_cdrom_cmd(d.self, d.args, in)))
  IN /\ run(_make_domain_args(self))
     /\ prev' = ret
     /\ UNCHANGED <<module_params, kwargs, ser>>

install_by_url ==
  LET set(r) == self' = r.self /\ ret' = r.ret
      run(d) == \E in \in UrlInputs : set(Invoke("install_by_url", in, d,
                   install_by_url_cmd(d.self, d.args, in)))
  IN /\ run(_make_domain_args(self))
     /\ prev' = ret
     /\ UNCHANGED <<module_params, kwargs, ser>>

install_by_pxe ==
  LET set(r) == self' = r.self /\ ret' = r.ret
      run(d) == \E in \in PxeInputs : set(Invoke("install_by_pxe", in, d,
                   install_by_pxe_cmd(d.self, d.args, in)))
  IN /\ run(_make_domain_args(self))
     /\ prev' = ret
     /\ UNCHANGED <<module_params, kwargs, ser>>

import_image ==
  LET set(r) == self' = r.self /\ ret' = r.ret
      run(d) == \E in \in ImportInputs : set(Invoke("import_image", in, d,
                   import_image_cmd(d.self, d.args, in)))
  IN /\ run(_make_domain_args(self))
     /\ prev' = ret
     /\ UNCHANGED <<module_params, kwargs, ser>>

Next ==
  \/ Call_make_domain_args
  \/ install_by_cdrom
  \/ install_by_url
  \/ install_by_pxe
  \/ import_image

Spec == Init /\ [][Next]_vars

\* the compiler alone, over every specification of ParamSets
InitCompile ==
  \/ \E params \in ParamSets : Constructed(params, <<>>)
  \/ \E params \in {Minimal, Full, Override(Minimal, [os_variant |-> PStr("fedora30")])},
        kw \in KwargSets : Constructed(params, kw)

NextCompile == Call_make_domain_args

SpecCompile == InitCompile /\ [][NextCompile]_vars

\* the serializer functions applied to inputs drawn at the start
InitSer ==
  /\ module_params = Minimal
  /\ kwargs = <<>>
  /\ self = __init__(Minimal, Uri, Name, <<>>)
  /\ ret = NoCall
  /\ prev = NoCall
  /\ \E p \in SerPrefixes, d \in SerData : ser = [NoSer EXCEPT !.prefix = p, !.data = d]

Apply_to_kv_pairs ==
  /\ ser' = [ser EXCEPT !.fn = "to_kv_pairs", !.out = to_kv_pairs(ser.data)]
  /\ UNCHANGED <<module_params, kwargs, self, ret, prev>>

Apply_to_kv_param ==
  /\ ser' = [ser EXCEPT !.fn = "to_kv_param", !.out = to_kv_param(ser.data)]
  /\ UNCHANGED <<module_params, kwargs, self, ret, prev>>

Apply_to_mixed_param ==
  /\ ser' = [ser EXCEPT !.fn = "to_mixed_param",
                        !.out = to_mixed_param(ser.prefix, ser.data)]
  /\ UNCHANGED <<module_params, kwargs, self, ret, prev>>

NextSer == Apply_to_kv_pairs \/ Apply_to_kv_param \/ Apply_to_mixed_param

SpecSer == InitSer /\ [][NextSer]_vars

(***************************************************************************)
(* Properties                                                              *)
(***************************************************************************)
\* the flags of each section, in the order the sections are documented
SectionFlags ==
  <<{"--name"},
    {"--virt-type", "--hvm", "--paravirt", "--container", "--qemu-commandline"},
    {"--arch", "--machine", "--features", "--os-variant", "--clock"},
    {"--cpu", "--vcpus"},
    {"--memory", "--memorybacking", "--memballoon"},
    {"--cputune", "--memtune", "--blkiotune"},
    {"--boot"}, {"--disk"}, {"--network"},
    {"--video"}, {"--sound"}, {"--serial"}, {"--parallel"}, {"--smartcard"},
    {"--input"}, {"--controller"}, {"--hostdev"},
    {"--graphics"},
    {"--autostart", "--noautoconsole"}>>
AllFlags == UNION {SectionFlags[i] : i \in DOMAIN SectionFlags}
Rank(tok) == CHOOSE i \in DOMAIN SectionFlags : tok \in SectionFlags[i]

\* the latest call was _make_domain_args and it returned its args list
Compiled == ret.op = "_make_domain_args" /\ ret.exc = ""

\* the positions of a flag in a token sequence, ascending, and the token
\* after each of them
Positions(args, flag) ==
  SelectSeq([i \in 1..Len(args) |-> i], LAMBDA i : args[i] = flag)
ValuesOf(args, flag) ==
  LET at == Positions(args, flag)
  IN [n \in 1..Len(at) |->
        IF at[n] < Len(args) THEN args[at[n] + 1] ELSE "(no value)"]

\* s contains sub as a substring
Contains(s, sub) ==
  \E i \in 1..(Len(s) - Len(sub) + 1) : SubSeq(s, i, i + Len(sub) - 1) = sub

\* key=value of entry i, written out independently of the serializer
EntryText(d, i) == d.d[i][1] \o "=" \o PyStr(d.d[i][2], FALSE)
EntryTexts(d) == [i \in 1..Len(d.d) |-> EntryText(d, i)]

\* C1: whenever _make_domain_args succeeds, `--name` is the first token and
\* no flag of a later section appears before a flag of an earlier section,
\* the sections being name, virtualization, general, CPU, memory, tuning,
\* boot, disk, network, video, sound, serial, parallel, smartcard, input,
\* controller, hostdev, graphics, misc.
C1_SectionOrder ==
  Compiled =>
    /\ ret.args[1] = "--name"
    /\ \A i, j \in 1..Len(ret.args) :
         (i < j /\ ret.args[i] \in AllFlags /\ ret.args[j] \in AllFlags)
           => Rank(ret.args[i]) <= Rank(ret.args[j])

\* a successful compilation whose output has a flag of every section
C1_EverySectionEmits ==
  /\ Compiled
  /\ \A n \in DOMAIN SectionFlags :
       \E i \in 1..Len(ret.args) : ret.args[i] \in SectionFlags[n]

\* C2: storage tri-state.  After a successful compilation: storage_devices
\* None gives no `--disk`; an empty list gives exactly (`--disk`, `none`); a
\* list of n elements gives exactly n `--disk` flags, in list order with
\* duplicates kept, each followed by to_kv_param(element), and
\* {path: /x.img, size: 10} gives `path=/x.img,size=10`.
C2_StorageTriState ==
  Compiled =>
    LET devs == self.storage_devices
        vals == ValuesOf(ret.args, "--disk")
    IN /\ devs = PyNone => vals = <<>>
       /\ (devs # PyNone /\ devs.l = <<>>) => vals = <<"none">>
       /\ (devs # PyNone /\ devs.l # <<>>) =>
            /\ Len(vals) = Len(devs.l)
            /\ \A i \in 1..Len(devs.l) :
                 /\ vals[i] = to_kv_param(devs.l[i]).val
                 /\ vals[i] = Join(",", EntryTexts(devs.l[i]))
                 /\ devs.l[i] = D(<<<<"path", PStr("/x.img")>>, <<"size", PInt(10)>>>>)
                      => vals[i] = "path=/x.img,size=10"

\* a successful compilation of a list holding the same disk twice
C2_DuplicateDisks ==
  /\ Compiled
  /\ self.storage_devices # PyNone
  /\ Len(self.storage_devices.l) = 2
  /\ self.storage_devices.l[1] = self.storage_devices.l[2]
  /\ ValuesOf(ret.args, "--disk") = <<"path=/x.img,size=10", "path=/x.img,size=10">>

\* C3: network tri-state.  After a successful compilation: network_devices
\* None gives no `--network`; an empty list gives exactly (`--network`,
\* `none`); a non-empty list gives one `--network` per element, in list
\* order, each followed by the comma-joined key=value encoding of the
\* element, and never the literal `none`.
C3_NetworkTriState ==
  Compiled =>
    LET devs == self.network_devices
        vals == ValuesOf(ret.args, "--network")
    IN /\ devs = PyNone => vals = <<>>
       /\ (devs # PyNone /\ devs.l = <<>>) => vals = <<"none">>
       /\ (devs # PyNone /\ devs.l # <<>>) =>
            /\ Len(vals) = Len(devs.l)
            /\ \A i \in 1..Len(devs.l) :
                 /\ vals[i] = Join(",", EntryTexts(devs.l[i]))
                 /\ vals[i] # "none"

\* a successful compilation of two different networks, kept in list order
C3_TwoNetworks ==
  /\ Compiled
  /\ self.network_devices # PyNone
  /\ ValuesOf(ret.args, "--network") = <<"bridge=br0,model=virtio", "network=default">>

\* the discriminator key of each device kind and the word naming the kind
DiscriminatorKey ==
  [serial_devices |-> "type", parallel_devices |-> "type",
   smartcard_devices |-> "mode", input_devices |-> "type",
   controllers |-> "type", host_devices |-> "source"]
KindWord ==
  [serial_devices |-> "serial", parallel_devices |-> "parallel",
   smartcard_devices |-> "smartcard", input_devices |-> "input",
   controllers |-> "controller", host_devices |-> "host device"]
\* some element of kind k lacks its discriminator
Offending(slf, k) ==
  /\ slf[k] # PyNone
  /\ \E i \in 1..Len(slf[k].l) : ~HasKey(slf[k].l[i], DiscriminatorKey[k])
FirstOffending(slf) ==
  DeviceKinds[CHOOSE n \in 1..Len(DeviceKinds) :
                /\ Offending(slf, DeviceKinds[n])
                /\ \A m \in 1..(n - 1) : ~Offending(slf, DeviceKinds[m])]
InstallOps == {"install_by_cdrom", "install_by_url", "install_by_pxe", "import_image"}

\* C4: abort on validation failure.  After a call of an install function on
\* a specification in which some device element lacks its discriminator, the
\* call has ended in a VirtInstError, no argument vector was returned or
\* built, and module.run_command was not invoked.
C4_AbortWithVirtInstError ==
  (ret.op \in InstallOps /\ \E k \in KindNames : Offending(self, k))
    => /\ ret.exc = "VirtInstError"
       /\ ret.args = <<>> /\ ret.cmd = <<>>
       /\ ~ret.ran

\* C5: a VirtInstError names the kind and the missing key of the first
\* offending element in the order serial, parallel, smartcard, input,
\* controller, host device, and names no other kind.
C5_ErrorNamesKindAndKey ==
  (ret.op # "" /\ ret.exc = "VirtInstError") =>
    /\ \E k \in KindNames : Offending(self, k)
    /\ LET k == FirstOffending(self)
       IN /\ Contains(ret.msg, KindWord[k])
          /\ Contains(ret.msg, "'" \o DiscriminatorKey[k] \o "'")
          /\ \A other \in KindNames \ {k} : ~Contains(ret.msg, KindWord[other])

\* a VirtInstError for a smartcard element, raised after valid serial and
\* parallel elements and with a later kind offending too
C5_SmartcardBeforeHostdev ==
  /\ ret.op = "_make_domain_args" /\ ret.exc = "VirtInstError"
  /\ self.serial_devices # PyNone /\ self.serial_devices.l # <<>>
  /\ FirstOffending(self) = "smartcard_devices"
  /\ Offending(self, "host_devices")
  /\ ret.msg = "Sub-option 'mode' is required for each smartcard device"

\* C6: to_kv_param returns the empty string for an empty map and for an
\* absent (None) map, without raising.
C6_TotalOnAbsentMap ==
  (ser.fn = "to_kv_param" /\ (ser.data = PyNone \/ ser.data = PDict(<<>>)))
    => ser.out = Ok("")

\* C7: to_mixed_param(prefix, map) is the stringified prefix alone when map
\* is empty or None, and otherwise the prefix, a comma and the comma-joined
\* key=value pairs of map in iteration order; (virtio, {model: q35}) gives
\* virtio,model=q35.
C7_MixedParam ==
  ser.fn = "to_mixed_param" =>
    /\ (ser.data = PyNone \/ ser.data = PDict(<<>>))
         => ser.out = Ok(PyStr(ser.prefix, FALSE))
    /\ (ser.data # PyNone /\ ser.data # PDict(<<>>))
         => ser.out = Ok(PyStr(ser.prefix, FALSE) \o ","
                         \o Join(",", EntryTexts(ser.data)))
    /\ (ser.prefix = PStr("virtio") /\ ser.data = D(<<<<"model", PStr("q35")>>>>))
         => ser.out = Ok("virtio,model=q35")

\* to_mixed_param applied to a number and a map of two entries
C7_PrefixAndTwoPairs ==
  /\ ser.fn = "to_mixed_param"
  /\ ser.prefix = PInt(2048)
  /\ ser.out = Ok("2048,size=10,model=q35")

\* reading an encoded string back: split on `,`, then each token on its
\* first `=`; the empty string holds no token
RECURSIVE IndexOf(_, _, _)
IndexOf(s, c, i) ==
  IF i > Len(s) THEN 0
  ELSE IF SubSeq(s, i, i) = c THEN i
  ELSE IndexOf(s, c, i + 1)
RECURSIVE Split(_, _)
Split(s, c) ==
  LET at == IndexOf(s, c, 1)
  IN IF at = 0 THEN <<s>>
     ELSE <<SubSeq(s, 1, at - 1)>> \o Split(SubSeq(s, at + 1, Len(s)), c)
Partition(tok) ==
  LET at == IndexOf(tok, "=", 1)
  IN IF at = 0 THEN <<tok>>
     ELSE <<SubSeq(tok, 1, at - 1), SubSeq(tok, at + 1, Len(tok))>>
Decode(s) ==
  IF s = "" THEN <<>>
  ELSE LET toks == Split(s, ",") IN [i \in 1..Len(toks) |-> Partition(toks[i])]

\* the keys and stringified values of a map, in iteration order
Entries(d) == [i \in 1..Len(d.d) |-> <<d.d[i][1], PyStr(d.d[i][2], FALSE)>>]
Plain(text) == ~Contains(text, ",") /\ ~Contains(text, "=")
PlainValues(d) == \A i \in 1..Len(d.d) : Plain(Entries(d)[i][2])
PlainKeys(d) == \A i \in 1..Len(d.d) : Plain(Entries(d)[i][1])

\* C8 as stated: for a map of n entries whose values contain no comma or
\* `=`, to_kv_pairs returns the n strings key_i=value_i in iteration order,
\* and splitting to_kv_param(map) on `,` and then on the first `=` recovers
\* the keys and stringified values.
C8_RoundTrip ==
  /\ (ser.fn = "to_kv_pairs" /\ ser.data # PyNone /\ PlainValues(ser.data))
       => ser.out = Ok(EntryTexts(ser.data))
  /\ (ser.fn = "to_kv_param" /\ ser.data # PyNone /\ PlainValues(ser.data))
       => (ser.out.exc = "" /\ Decode(ser.out.val) = Entries(ser.data))

\* C8 amended: the same for maps whose keys, too, contain no comma and no
\* `=`.
C8_RoundTripPlainKeys ==
  /\ (ser.fn = "to_kv_pairs" /\ ser.data # PyNone /\ PlainValues(ser.data))
       => ser.out = Ok(EntryTexts(ser.data))
  /\ (ser.fn = "to_kv_param" /\ ser.data # PyNone /\ PlainValues(ser.data)
        /\ PlainKeys(ser.data))
       => (ser.out.exc = "" /\ Decode(ser.out.val) = Entries(ser.data))

\* to_kv_param of a two-entry map with plain keys and values, one empty
C8_TwoPlainEntries ==
  /\ ser.fn = "to_kv_param"
  /\ ser.data = D(<<<<"model", PStr("")>>, <<"size", PInt(10)>>>>)
  /\ Decode(ser.out.val) = <<<<"model", "">>, <<"size", "10">>>>

\* what C9 expects of one cell at zero-based position i, and of all cells
CellTexts(cell, i) ==
  LET name == "numa.cell" \o ToString(i) \o "."
      own == SelectSeq(Entries(cell), LAMBDA e : e[1] \in {"id", "cpus", "memory"})
      dist == IF HasKey(cell, "distances") /\ GetItem(cell, "distances") # PyNone
              THEN GetItem(cell, "distances").l ELSE <<>>
      sibling(j) == [n \in 1..Len(Entries(dist[j])) |->
                       name \o "distances.sibling" \o ToString(j - 1) \o "."
                       \o Entries(dist[j])[n][1] \o "=" \o Entries(dist[j])[n][2]]
      RECURSIVE siblings(_)
      siblings(j) == IF j > Len(dist) THEN <<>> ELSE sibling(j) \o siblings(j + 1)
  IN [n \in 1..Len(own) |-> name \o own[n][1] \o "=" \o own[n][2]] \o siblings(1)
RECURSIVE CellsTexts(_, _)
CellsTexts(cells, i) ==
  IF i > Len(cells) THEN <<>>
  ELSE CellTexts(cells[i], i - 1) \o CellsTexts(cells, i + 1)

\* C9: with a CPU model and cpu_cells set (and no features or cpu_opts),
\* _make_domain_args succeeds and the `--cpu` payload is the model followed
\* by numa.cell<i>.<key>=<value> for the keys id, cpus, memory of each cell
\* and numa.cell<i>.distances.sibling<j>.<key>=<value> for its distances.
C9_NumaCells ==
  (ret.op = "_make_domain_args" /\ self.cpu_model # PyNone
     /\ self.cpu_cells # PyNone /\ self.cpu_features = PyNone
     /\ self.cpu_opts = PyNone /\ ret.exc # "VirtInstError")
    => /\ ret.exc = ""
       /\ ValuesOf(ret.args, "--cpu")
            = <<Join(",", <<self.cpu_model.s>> \o CellsTexts(self.cpu_cells.l, 1))>>

\* C10: determinism.  When the latest two calls were the same function with
\* the same arguments, both returned the same argument vector and command,
\* token for token, or both raised the same error.
C10_Determinism ==
  (prev.op # "" /\ prev.op = ret.op /\ prev.in = ret.in)
    => /\ ret.exc = prev.exc /\ ret.msg = prev.msg
       /\ ret.args = prev.args /\ ret.cmd = prev.cmd

\* install_by_url called twice with the same arguments on a specification
\* with a device of every kind, both calls reaching run_command
C10_SameInstallTwice ==
  /\ prev.op = "install_by_url" /\ ret.op = "install_by_url"
  /\ prev.in = ret.in
  /\ prev.ran /\ ret.ran
  /\ \A flag \in {"--serial", "--parallel", "--smartcard", "--input",
                  "--controller", "--hostdev"} :
       Positions(ret.args, flag) # <<>>

\* the last token of a non-empty sequence
Last(seq) == seq[Len(seq)]

\* C11: the vector import_image hands to run_command starts with the
\* executable path, `--connect`, the URI, `--name`, the name; it ends with
\* `--import` when dryrun is false and with `--import`, `--dry-run` when
\* dryrun is true; and it holds no `--noreboot` token.
C11_ImportVector ==
  (ret.op = "import_image" /\ ret.ran) =>
    /\ SubSeq(ret.cmd, 1, 5)
         = <<self.virtinst_bin, "--connect", self.uri.s, "--name", self.name.s>>
    /\ ~Truthy(ret.in.dryrun) => Last(ret.cmd) = "--import"
    /\ Truthy(ret.in.dryrun) =>
         /\ Last(ret.cmd) = "--dry-run"
         /\ ret.cmd[Len(ret.cmd) - 1] = "--import"
    /\ \A i \in 1..Len(ret.cmd) : ret.cmd[i] # "--noreboot"

\* import_image with dryrun reaching run_command
C11_ImportDryRun ==
  /\ ret.op = "import_image" /\ ret.ran
  /\ Truthy(ret.in.dryrun)
  /\ SubSeq(ret.cmd, Len(ret.cmd) - 2, Len(ret.cmd))
       = <<"--noautoconsole", "--import", "--dry-run">>

\* C12: a successfully compiled sequence ends with `--noautoconsole`, which
\* occurs exactly once; `--autostart` occurs, once and immediately before
\* it, exactly when autostart is truthy.
C12_MiscTail ==
  Compiled =>
    /\ Last(ret.args) = "--noautoconsole"
    /\ Positions(ret.args, "--noautoconsole") = <<Len(ret.args)>>
    /\ Truthy(self.autostart)
         => Positions(ret.args, "--autostart") = <<Len(ret.args) - 1>>
    /\ ~Truthy(self.autostart) => Positions(ret.args, "--autostart") = <<>>

\* a successful compilation with autostart requested
C12_AutostartRequested ==
  /\ Compiled
  /\ self.autostart = PBool(TRUE)
  /\ SubSeq(ret.args, Len(ret.args) - 1, Len(ret.args))
       = <<"--autostart", "--noautoconsole">>

\* the UEFI toggle the caller asked for: the keyword if given, else the
\* module parameter
UefiRequested ==
  IF "uefi" \in DOMAIN kwargs THEN kwargs["uefi"] ELSE module_params["uefi"]

\* C13: (`--boot`, `uefi`) is in the compiled sequence exactly when the UEFI
\* toggle is true; it is absent when the toggle is false or unset, whatever
\* os_variant is.
C13_BootIffUefi ==
  Compiled =>
    /\ UefiRequested = PBool(TRUE) => ValuesOf(ret.args, "--boot") = <<"uefi">>
    /\ UefiRequested # PBool(TRUE) => Positions(ret.args, "--boot") = <<>>

\* the tokens C14 expects after the compiled domain tokens: the mode flag,
\* then the optional flags of the mode
ModeFlags == {"--cdrom", "--location", "--pxe", "--import"}
ModeTokens(op, in) ==
  CASE op = "install_by_cdrom" -> <<"--cdrom", PyStr(in.media, FALSE)>>
    [] op = "install_by_url" -> <<"--location", PyStr(in.url, FALSE)>>
    [] op = "install_by_pxe" -> <<"--pxe">>
    [] op = "import_image" -> <<"--import">>
OptionalTokens(op, in) ==
  (IF op = "install_by_url" /\ in.extra_args # PyNone
   THEN <<"--extra-args", PyStr(in.extra_args, FALSE)>> ELSE <<>>)
  \o (IF op = "install_by_url" /\ in.initrd_inject # PyNone
      THEN <<"--initrd-inject", PyStr(in.initrd_inject, FALSE)>> ELSE <<>>)
  \o (IF op # "import_image" /\ in.noreboot = PBool(TRUE)
      THEN <<"--noreboot">> ELSE <<>>)
  \o (IF in.dryrun = PBool(TRUE) THEN <<"--dry-run">> ELSE <<>>)

\* C14: the vector an install function hands to run_command is the
\* executable, `--connect`, the URI, the compiled domain tokens ending with
\* `--noautoconsole`, then the one mode flag of the function and then the
\* optional flags of that mode in the order --extra-args, --initrd-inject,
\* --noreboot, --dry-run, each present exactly when supplied or true; no
\* other mode flag is in the vector.
C14_ModeFlagsTrail ==
  (ret.op \in InstallOps /\ ret.ran) =>
    /\ Last(ret.args) = "--noautoconsole"
    /\ ret.cmd = <<self.virtinst_bin, "--connect", self.uri.s>> \o ret.args
                 \o ModeTokens(ret.op, ret.in) \o OptionalTokens(ret.op, ret.in)
    /\ Cardinality({i \in 1..Len(ret.cmd) : ret.cmd[i] \in ModeFlags}) = 1

\* install_by_url with every optional argument supplied
C14_UrlWithEveryOption ==
  /\ ret.op = "install_by_url" /\ ret.ran
  /\ SubSeq(ret.cmd, Len(ret.cmd) - 8, Len(ret.cmd))
       = <<"--noautoconsole", "--location", "http://mirror/os",
           "--extra-args", "console=ttyS0", "--initrd-inject", "/ks.cfg",
           "--noreboot", "--dry-run">>

\* the feature entries expected of cpu_features: category=feature, in the
\* category order force, require, optional, disable
FeatureTexts(features) ==
  LET listed(cat) == IF features # PyNone /\ HasKey(features, cat)
                        /\ GetItem(features, cat) # PyNone
                     THEN GetItem(features, cat).l ELSE <<>>
      texts(cat) == [i \in 1..Len(listed(cat)) |->
                       cat \o "=" \o PyStr(listed(cat)[i], FALSE)]
  IN texts("force") \o texts("require") \o texts("optional") \o texts("disable")

\* C15: with a CPU model and cpu_opts set (and no cpu_cells),
\* _make_domain_args succeeds and the `--cpu` payload is one comma-joined
\* string: the model, the feature entries, then one key=value per cpu_opts
\* entry.
C15_CpuOpts ==
  (ret.op = "_make_domain_args" /\ self.cpu_model # PyNone
     /\ self.cpu_opts # PyNone /\ self.cpu_cells = PyNone
     /\ ret.exc # "VirtInstError")
    => /\ ret.exc = ""
       /\ ValuesOf(ret.args, "--cpu")
            = <<Join(",", <<self.cpu_model.s>> \o FeatureTexts(self.cpu_features)
                          \o EntryTexts(self.cpu_opts))>>

\* the sections before the tuning section have nothing that can raise
CpuPlain(slf) == slf.cpu_opts = PyNone /\ slf.cpu_cells = PyNone

\* C16: with memtune set, _make_domain_args succeeds and the sequence has
\* `--memtune` once, followed by to_kv_param(memtune), after every
\* `--cputune` and before every `--blkiotune`.
C16_Memtune ==
  (ret.op = "_make_domain_args" /\ self.memtune # PyNone /\ CpuPlain(self)
     /\ self.cputune = PyNone /\ self.blkiotune = PyNone
     /\ ret.exc # "VirtInstError")
    => /\ ret.exc = ""
       /\ ValuesOf(ret.args, "--memtune") = <<Join(",", EntryTexts(self.memtune))>>
       /\ \A i \in 1..Len(ret.args) :
            /\ ret.args[i] = "--cputune" => i < Positions(ret.args, "--memtune")[1]
            /\ ret.args[i] = "--blkiotune" => i > Positions(ret.args, "--memtune")[1]

\* name<i>.<key>=<value> for every key of the entry at zero-based position
\* i, in list order
RECURSIVE IndexedTexts(_, _, _)
IndexedTexts(items, i, name) ==
  IF i > Len(items) THEN <<>>
  ELSE [n \in 1..Len(items[i].d) |->
          name \o ToString(i - 1) \o "." \o EntryText(items[i], n)]
       \o IndexedTexts(items, i + 1, name)
\* the list under `key` of a map, empty when absent or None
ListUnder(d, key) ==
  IF HasKey(d, key) /\ GetItem(d, key) # PyNone THEN GetItem(d, key).l ELSE <<>>

\* C17: with cputune set and a non-empty vcpupins list, _make_domain_args
\* succeeds and the `--cputune` payload is vcpupin<i>.<key>=<value> for
\* every key of every pin entry, in list order.
C17_CputunePins ==
  (ret.op = "_make_domain_args" /\ self.cputune # PyNone
     /\ ListUnder(self.cputune, "vcpupins") # <<>> /\ CpuPlain(self)
     /\ self.memtune = PyNone /\ self.blkiotune = PyNone
     /\ ret.exc # "VirtInstError")
    => /\ ret.exc = ""
       /\ ValuesOf(ret.args, "--cputune")
            = <<Join(",", IndexedTexts(ListUnder(self.cputune, "vcpupins"), 1,
                                       "vcpupin"))>>

\* C18: with a non-empty blkiotune set, _make_domain_args succeeds and the
\* `--blkiotune` payload is weight=<w> when the key weight is present, then
\* device<i>.<key>=<value> for every key of every device entry, in list
\* order, and nothing for any other top-level key.
C18_Blkiotune ==
  (ret.op = "_make_domain_args" /\ self.blkiotune # PyNone
     /\ self.blkiotune.d # <<>> /\ CpuPlain(self)
     /\ self.memtune = PyNone /\ self.cputune = PyNone
     /\ ret.exc # "VirtInstError")
    => /\ ret.exc = ""
       /\ ValuesOf(ret.args, "--blkiotune")
            = <<Join(",",
                  (IF HasKey(self.blkiotune, "weight")
                   THEN <<"weight=" \o PyStr(GetItem(self.blkiotune, "weight"), FALSE)>>
                   ELSE <<>>)
                  \o IndexedTexts(ListUnder(self.blkiotune, "devices"), 1, "device"))>>

\* the flags that take a value
ValueFlags ==
  {"--features", "--clock", "--cpu", "--vcpus", "--memory", "--memorybacking",
   "--memballoon", "--cputune", "--memtune", "--blkiotune", "--disk",
   "--network", "--video", "--sound", "--serial", "--parallel", "--smartcard",
   "--input", "--controller", "--hostdev", "--graphics"}
\* a map that is present but empty
EmptyMap(v) == v # PyNone /\ v.d = <<>>

\* C19: in a successfully compiled sequence every value-taking flag is
\* immediately followed by a non-empty token that is not a flag, and a map
\* that is present but empty (machine_features, memorybacking, cputune
\* without pins, blkiotune without weight or devices) contributes no token.
C19_NoBareFlags ==
  Compiled =>
    /\ \A i \in 1..Len(ret.args) :
         ret.args[i] \in ValueFlags
           => /\ i < Len(ret.args)
              /\ ret.args[i + 1] # ""
              /\ ret.args[i + 1] \notin AllFlags
    /\ EmptyMap(self.machine_features) => Positions(ret.args, "--features") = <<>>
    /\ EmptyMap(self.memorybacking) => Positions(ret.args, "--memorybacking") = <<>>
    /\ (self.cputune # PyNone /\ ListUnder(self.cputune, "vcpupins") = <<>>)
         => Positions(ret.args, "--cputune") = <<>>
    /\ (self.blkiotune # PyNone /\ ~HasKey(self.blkiotune, "weight")
          /\ ListUnder(self.blkiotune, "devices") = <<>>)
         => Positions(ret.args, "--blkiotune") = <<>>

\* no section other than the CPU section can raise on this specification
OthersPlain(slf) ==
  /\ slf.memtune = PyNone
  /\ slf.cputune # PyNone => ListUnder(slf.cputune, "vcpupins") = <<>>
  /\ slf.blkiotune # PyNone => slf.blkiotune.d = <<>>
  /\ \A k \in KindNames : ~Offending(slf, k)
\* prefix, then the key=value pairs of a non-empty map
MixedText(prefix, opts) ==
  Join(",", <<PyStr(prefix, FALSE)>>
            \o (IF opts # PyNone /\ opts.d # <<>> THEN EntryTexts(opts) ELSE <<>>))
\* the entries cpu_features and cpu_opts would contribute to a --cpu payload
CpuEntryTexts(slf) ==
  FeatureTexts(slf.cpu_features)
  \o (IF slf.cpu_opts # PyNone THEN EntryTexts(slf.cpu_opts) ELSE <<>>)

\* C20: with the CPU model unset, compilation does not fail because of
\* cpu_features, cpu_opts or cpu_cells, the sequence has no `--cpu` token
\* and no token holding a feature, cpu_opts or numa.cell entry, and
\* `--vcpus` is emitted, as to_mixed_param(vcpus, vcpus_opts), exactly when
\* vcpus is set.
C20_NoCpuWithoutModel ==
  (ret.op = "_make_domain_args" /\ self.cpu_model = PyNone) =>
    /\ OthersPlain(self) => ret.exc = ""
    /\ ret.exc = "" =>
         /\ Positions(ret.args, "--cpu") = <<>>
         /\ \A i \in 1..Len(ret.args) :
              /\ ~Contains(ret.args[i], "numa.cell")
              /\ \A n \in 1..Len(CpuEntryTexts(self)) :
                   ~Contains(ret.args[i], CpuEntryTexts(self)[n])
         /\ self.vcpus # PyNone
              => ValuesOf(ret.args, "--vcpus")
                   = <<MixedText(self.vcpus, self.vcpus_opts)>>
         /\ self.vcpus = PyNone => Positions(ret.args, "--vcpus") = <<>>

\* a successful compilation with NUMA cells but no CPU model
C20_CellsWithoutModel ==
  /\ Compiled
  /\ self.cpu_model = PyNone
  /\ self.cpu_cells = L(<<CellExample>>)
  /\ ret.args = <<"--name", "v1", "--vcpus", "2", "--memory", "2048",
                  "--noautoconsole">>

\* s begins with the characters of prefix
StartsWith(s, prefix) ==
  Len(s) >= Len(prefix) /\ SubSeq(s, 1, Len(prefix)) = prefix

\* C21: with a CPU model set, a successful compilation emits exactly one
\* `--cpu` flag whose payload begins with the model token followed by one
\* `<category>=<feature>` entry per listed feature, the categories in the
\* order force, require, optional, disable whatever the order of the keys
\* of cpu_features, each category in its list order, and nothing for a
\* category that is absent or None; without NUMA cells that is the whole
\* payload, with cells their entries follow after a comma.
C21_FeatureOrder ==
  (Compiled /\ self.cpu_model # PyNone) =>
    LET expected == Join(",", <<self.cpu_model.s>> \o FeatureTexts(self.cpu_features))
        payload == ValuesOf(ret.args, "--cpu")
    IN /\ Len(payload) = 1
       /\ StartsWith(payload[1], expected)
       /\ \/ payload[1] = expected
          \/ /\ self.cpu_cells # PyNone
             /\ StartsWith(payload[1], expected \o ",numa.cell")

\* a compiled specification whose cpu_features lists every category, the
\* keys in the order optional, disable, forbid (None), require, force
C21_ShuffledCategories ==
  /\ Compiled
  /\ self.cpu_features = FeaturesShuffled
  /\ ValuesOf(ret.args, "--cpu")
       = <<"host,force=aes,force=x2apic,require=pcid,optional=avx,optional=sse4.2,disable=vmx">>

\* the flag of each device kind
KindFlag ==
  [serial_devices |-> "--serial", parallel_devices |-> "--parallel",
   smartcard_devices |-> "--smartcard", input_devices |-> "--input",
   controllers |-> "--controller", host_devices |-> "--hostdev"]
\* the element without the entries under key
Without(d, key) == PDict(SelectSeq(d.d, LAMBDA p : p[1] # key))
\* the value expected for one element of kind k
DeviceText(k, elem) ==
  IF k = "input_devices" THEN Join(",", EntryTexts(elem))
  ELSE MixedText(GetItem(elem, DiscriminatorKey[k]),
                 Without(elem, DiscriminatorKey[k]))

\* C22: after a successful compilation every device list that is set has
\* produced one flag/value pair per element, in list order.  For serial,
\* parallel, smartcard, controller and host-device elements the value is
\* the discriminator value as a bare first token followed by the key=value
\* pairs of the other entries, and no token of it is `<discriminator
\* key>=...`; for input devices the value is the key=value pairs of the
\* whole element, so it holds `type=<value>` and its first token is a pair.
C22_DeviceValues ==
  Compiled =>
    \A k \in KindNames :
      self[k] # PyNone =>
        LET elems == self[k].l
            values == ValuesOf(ret.args, KindFlag[k])
            key == DiscriminatorKey[k]
        IN /\ Len(values) = Len(elems)
           /\ \A i \in 1..Len(elems) :
                LET toks == Split(values[i], ",")
                    disc == PyStr(GetItem(elems[i], key), FALSE)
                IN /\ values[i] = DeviceText(k, elems[i])
                   /\ IF k = "input_devices"
                      THEN /\ \E n \in 1..Len(toks) : toks[n] = "type=" \o disc
                           /\ Contains(toks[1], "=")
                      ELSE /\ toks[1] = disc
                           /\ \A n \in 1..Len(toks) :
                                ~StartsWith(toks[n], key \o "=")

\* a compiled specification with two different elements in every device list
C22_TwoElementsPerKind ==
  /\ Compiled
  /\ \A k \in KindNames : self[k] = L(<<OtherDevice[k], GoodDevice[k]>>)
  /\ ValuesOf(ret.args, "--serial") = <<"file,path=/tmp/log", "pty">>
  /\ ValuesOf(ret.args, "--smartcard") = <<"host", "passthrough,type=spicevmc">>
  /\ ValuesOf(ret.args, "--input") = <<"bus=ps2,type=keyboard", "type=tablet,bus=usb">>
  /\ ValuesOf(ret.args, "--controller") = <<"scsi,index=0", "usb,model=ich9-ehci1">>
  /\ ValuesOf(ret.args, "--hostdev") = <<"pci_0000_00_1b_0", "001.003,driver_name=vfio">>

\* C23: a call of _make_domain_args, direct or through an install function,
\* returning or raising, changes no field of the specification held by the
\* tool nor the module parameters it was built from; in particular every
\* device element that held its discriminator key before the call holds it
\* after the call.
C23_NoMutation ==
  [][/\ self' = self
     /\ module_params' = module_params
     /\ kwargs' = kwargs
     /\ \A k \in KindNames :
          self[k] # PyNone =>
            /\ self'[k] # PyNone
            /\ Len(self'[k].l) = Len(self[k].l)
            /\ \A i \in 1..Len(self[k].l) :
                 HasKey(self[k].l[i], DiscriminatorKey[k])
                   => HasKey(self'[k].l[i], DiscriminatorKey[k])]_vars

\* a second call that raised for a smartcard element after the serial and
\* parallel elements had been serialized twice; they still hold their keys
C23_SecondCallAfterRaise ==
  /\ prev.op # "" /\ prev.exc = "VirtInstError"
  /\ ret.op # "" /\ ret.exc = "VirtInstError" /\ ret.msg = prev.msg
  /\ FirstOffending(self) = "smartcard_devices"
  /\ self.serial_devices = L(<<GoodDevice["serial_devices"]>>)
  /\ self.parallel_devices = L(<<GoodDevice["parallel_devices"]>>)
  /\ self.host_devices = L(<<GoodDevice["host_devices"]>>)
  /\ self = __init__(module_params, Uri, Name, kwargs)

\* the bare flags of the virtualization section, in their fixed order
VirtFlags == <<"--hvm", "--paravirt", "--container">>
\* the tokens expected of the virtualization section
VirtTokens(slf) ==
  LET listed(tok) == /\ slf.virt_opts # PyNone
                     /\ \E i \in 1..Len(slf.virt_opts.l) : slf.virt_opts.l[i] = PStr(tok)
  IN (IF slf.virt_type # PyNone THEN <<"--virt-type", slf.virt_type.s>> ELSE <<>>)
     \o (IF listed("hvm") THEN <<"--hvm">> ELSE <<>>)
     \o (IF listed("paravirt") THEN <<"--paravirt">> ELSE <<>>)
     \o (IF listed("container") THEN <<"--container">> ELSE <<>>)
     \o (IF slf.qemu_commandline # PyNone
         THEN <<"--qemu-commandline", slf.qemu_commandline.s>> ELSE <<>>)

\* C24: after a successful compilation, `--virt-type <t>` is present iff
\* virt_type is set; each of `--hvm`, `--paravirt`, `--container` occurs
\* once when its token is in the virt-options list and not at all
\* otherwise, whatever the order and multiplicity of the list, and they
\* occur in that fixed order; `--qemu-commandline <text>` is present, with
\* the text as given, iff qemu_commandline is set; a list entry outside the
\* three tokens adds nothing, so the tokens after `--name <name>` are
\* exactly those, followed by a token of a later section or the end.
C24_VirtSection ==
  Compiled =>
    LET expected == VirtTokens(self)
        count(flag) == Len(Positions(ret.args, flag))
        listed(tok) == /\ self.virt_opts # PyNone
                       /\ \E i \in 1..Len(self.virt_opts.l) :
                            self.virt_opts.l[i] = PStr(tok)
    IN /\ ValuesOf(ret.args, "--virt-type")
            = (IF self.virt_type # PyNone THEN <<self.virt_type.s>> ELSE <<>>)
       /\ ValuesOf(ret.args, "--qemu-commandline")
            = (IF self.qemu_commandline # PyNone
               THEN <<self.qemu_commandline.s>> ELSE <<>>)
       /\ count("--hvm") = (IF listed("hvm") THEN 1 ELSE 0)
       /\ count("--paravirt") = (IF listed("paravirt") THEN 1 ELSE 0)
       /\ count("--container") = (IF listed("container") THEN 1 ELSE 0)
       /\ \A a, b \in 1..Len(VirtFlags) :
            (a < b /\ count(VirtFlags[a]) = 1 /\ count(VirtFlags[b]) = 1)
              => Positions(ret.args, VirtFlags[a])[1] < Positions(ret.args, VirtFlags[b])[1]
       /\ Len(ret.args) >= 2 + Len(expected)
       /\ SubSeq(ret.args, 3, 2 + Len(expected)) = expected
       /\ Len(ret.args) > 2 + Len(expected)
            => ret.args[3 + Len(expected)]
                 \in AllFlags \ (SectionFlags[1] \cup SectionFlags[2])

\* a compiled specification whose virt-options list holds the three tokens
\* out of order, one of them twice, and a token that is not recognized
C24_ShuffledDuplicatesUnknown ==
  /\ Compiled
  /\ self.virt_opts = L(<<PStr("container"), PStr("xen"), PStr("hvm"),
                          PStr("paravirt"), PStr("hvm")>>)
  /\ SubSeq(ret.args, 1, 9)
       = <<"--name", "v1", "--virt-type", "xen", "--hvm", "--paravirt",
           "--container", "--qemu-commandline", "-device foo,bar=1  -S ">>

\* other values of the numatune block and of the forbid list
NumatuneChoices ==
  {PyNone, D(<<>>), D(<<<<"nodeset", PStr("2-3")>>, <<"mode", PStr("preferred")>>>>)}
ForbidChoices == {PyNone, L(<<>>), L(<<PStr("avx")>>)}
\* cpu_features with the forbid entry removed, or put last with value v
DropForbid(features) ==
  IF features = PyNone THEN PyNone
  ELSE PDict(SelectSeq(features.d, LAMBDA p : p[1] # "forbid"))
SetForbid(features, v) ==
  IF features = PyNone THEN PDict(<<<<"forbid", v>>>>)
  ELSE PDict(DropForbid(features).d \o <<<<"forbid", v>>>>)
\* the specifications that differ from slf only in numatune and forbid
DifferOnlyInIgnored(slf) ==
  {[slf EXCEPT !.numatune = n, !.cpu_features = f] :
     n \in NumatuneChoices \cup {slf.numatune},
     f \in {slf.cpu_features, DropForbid(slf.cpu_features)}
           \cup {SetForbid(slf.cpu_features, v) : v \in ForbidChoices}}

====
